---- MODULE Spec2Model ----
(***************************************************************************)
(* A model of the agent-stream WebSocket client: the protocol codec        *)
(* (messages.go: Message variants, UnmarshalMessage), the session layer    *)
(* (session.go: reader loop, keep-alive loop, Send, Close), the handshake  *)
(* (client.go: Client.NewSession) and the turn-taking controller           *)
(* (main.go: runConversation, listenForResponses).                         *)
(*                                                                         *)
(* The specifications of the module:                                       *)
(*   CodecSpec  a message is marshalled and unmarshalled                   *)
(*   Spec       one session: handshake, loops, owner's Recv/Send/Close     *)
(*   FairSpec   Spec with the scheduler's fairness, for termination        *)
(*   CtlSpec    runConversation and listenForResponses on a ready session, *)
(*              with time counted in periods of the 100ms timer            *)
(*   ChunkSpec  sendAudioFile cutting a PCM buffer into MediaInput frames  *)
(***************************************************************************)
EXTENDS Integers, Sequences, FiniteSets, TLC

VARIABLES
    \* ---- codec round trip (CodecSpec)
    cpc,            \* "start" | "marshalled" | "marshalErr" | "done" | "off"
    cmsg,           \* the Go message handed to json.Marshal
    cdata,          \* the bytes json.Marshal produced
    cres,           \* what UnmarshalMessage returned: [err, msg]
    \* ---- session (Spec)
    script,         \* which frame script the server plays on the socket
    readCount,      \* number of frames conn.Read has returned so far
    readerPc,       \* "none" | "check" | "read" | "push" | "done"
    readerWhy,      \* why read() returned: "" | "ctx" | "readErr" | "ctxPush"
    pending,        \* read()'s local m, the message being pushed
    readCh,         \* s.readCh, the buffered channel (the mailbox)
    readChClosed,   \* whether close(s.readCh) has been executed
    cancelled,      \* the session context's Done() is closed
    wg,             \* s.wg counter
    pingPc,         \* "none" | "wait" | "ping" | "failed" | "done"
    closePc,        \* Close(): "idle" | "waiting" | "closing" | "returned"
    connClosed,     \* s.conn.Close has run
    ctxDone,        \* the caller's context (deadline) is done
    ctxDoneBeforeMsg, \* the deadline expired while no message had reached the mailbox
    hsPc,           \* NewSession: "dial" | "send" | "closing" | "select" | "done"
    hsResult,       \* "" | "ok" | "dialErr" | "sendErr" | "notAck" | "timeout"
    hsGot,          \* the message NewSession received
    delivered,      \* what NewSession and the owner received from Messages(), in order
    sent,           \* events of the frames conn.Write has written
    nSends,         \* number of Send calls made
    sendErr,        \* the error the last Send returned
    \* ---- turn-taking controller (CtlSpec)
    ctlPc,          \* listenForResponses: "off" | "run" | "done"
    ctlWhy,         \* the return statement it left by: "" | "chanClosed" |
                    \*   "writeErr" | "complete" | "timeout" | "deadline"
    ctlErr,         \* the error it returned
    greetingComplete,
    questionSent,
    agentSpeaking,
    sinceAudio,     \* time.Since(lastAudioTime), in timer periods of 100ms
    timerReady,     \* the time.After(100ms) of the current select has fired
    sendQuestionCloses, \* number of close(sendQuestion) executed
    questionCompleteClosed, \* close(questionComplete) has been executed
    questionCompleteNil,    \* the controller's questionComplete is nil
    responseDone,   \* the buffered channel responseDone
    mainPc,         \* runConversation: "off" | "waitGreeting" | "sendAudio" |
                    \*   "writeLeft" | "sending" | "audioSent" | "waitDone" |
                    \*   "returned" | "deferred" | "exited"
    mainErr,        \* the error runConversation returned
    clearLogged,    \* "Clear event received" has been logged
    agentCount,     \* messages AgentSends has queued since the handshake
    arrivedAfter,   \* a message was queued after the question was fully sent
    \* ---- audio chunker (ChunkSpec)
    chPc,           \* sendAudioFile: "off" | "read" | "data" | "silence" | "done"
    audioLen,       \* len(audioData)
    offset,         \* the loop variable of the data loop
    silenceI,       \* the loop variable i of the silence loop
    chunks,         \* the MediaInput payloads session.Send has sent, in order
    chErr           \* the error sendAudioFile returned

codecVars == <<cpc, cmsg, cdata, cres>>
readerVars == <<readCount, readerPc, readerWhy, pending>>
sessVars == <<script, readCount, readerPc, readerWhy, pending, readCh, readChClosed,
              cancelled, wg, pingPc, closePc, connClosed, ctxDone, ctxDoneBeforeMsg,
              hsPc, hsResult, hsGot, delivered, sent, nSends, sendErr>>
ctlVars == <<ctlPc, ctlWhy, ctlErr, greetingComplete, questionSent, agentSpeaking,
             sinceAudio, timerReady, sendQuestionCloses, questionCompleteClosed,
             questionCompleteNil, responseDone, mainPc, mainErr, clearLogged,
             agentCount, arrivedAfter>>
chunkVars == <<chPc, audioLen, offset, silenceI, chunks, chErr>>
vars == <<codecVars, sessVars, ctlVars, chunkVars>>

\* ------------------------------------------------------------------ bounds
\* Frames the server sends on one connection.
MaxFrames == 16
\* Send calls made on one session (the Start descriptor included).
MaxSends == 2
\* Messages the agent sends while the controller listens.
MaxAgentMsgs == 2

\* ------------------------------------------------------------ program data
\* make(chan Message, 10)
MailboxCap == 10
\* Time is counted in periods of the controller's timer, time.After(100ms).
\* silenceThreshold = 2 * time.Second
SilenceThreshold == 20
\* responseTimeout = 10 * time.Second
ResponseTimeout == 100

Variants == {"Start", "Ack", "MediaInput", "DTMF", "Custom", "MediaOutput", "Clear"}

\* The Type() method of each variant, and the MessageType constants.
TypeOf(v) ==
    CASE v = "Start" -> "start"
      [] v = "Ack" -> "ack"
      [] v = "MediaInput" -> "media_input"
      [] v = "DTMF" -> "dtmf"
      [] v = "Custom" -> "custom"
      [] v = "MediaOutput" -> "media_output"
      [] v = "Clear" -> "clear"

\* Struct fields per variant.
HasConfig(v) == v \in {"Start", "Ack"}
HasMetadata(v) == v \in {"Start", "Custom"}
HasMedia(v) == v \in {"MediaInput", "MediaOutput"}
HasDTMF(v) == v = "DTMF"

\* A field the variant's struct does not have / a key the JSON object lacks.
NA == "<n/a>"
Absent == "<absent>"
\* A JSON value of the wrong type for a string field (a number).
BadType == "<number>"

InputFormats == {"mulaw_8000", "pcm_16000", "pcm_24000", "pcm_44100"}

\* Go values of type Metadata (map[string]interface{}), named by their %v form.
GoMetadata == {"nil", "map[]", "map[k:v]", "map[k:int(1)]", "map[k:float64(1)]",
               "map[k:chan]"}

\* A Go message: the variant (its dynamic type) and its fields.
Msg(v, ev, sid, fmt, md, pl, d) ==
    [variant |-> v, Event |-> ev, StreamID |-> sid,
     InputFormat |-> IF HasConfig(v) THEN fmt ELSE NA,
     Metadata |-> IF HasMetadata(v) THEN md ELSE NA,
     Payload |-> IF HasMedia(v) THEN pl ELSE NA,
     DTMF |-> IF HasDTMF(v) THEN d ELSE NA]

\* The nil Message.
NilMsg ==
    [variant |-> "nil", Event |-> NA, StreamID |-> NA, InputFormat |-> NA,
     Metadata |-> NA, Payload |-> NA, DTMF |-> NA]

\* A text frame: ok is whether the bytes are syntactically valid JSON.
Frame(ev, sid, fmt, md, pl, d) ==
    [ok |-> TRUE, event |-> ev, stream_id |-> sid, input_format |-> fmt,
     metadata |-> md, payload |-> pl, dtmf |-> d]

Garbage ==
    [ok |-> FALSE, event |-> Absent, stream_id |-> Absent, input_format |-> Absent,
     metadata |-> Absent, payload |-> Absent, dtmf |-> Absent]

\* ------------------------------------------------------------------- codec
\* encoding/json on a Metadata value: a nil map is null, numbers lose their Go type.
EncMetadata(md) ==
    CASE md = "nil" -> "null"
      [] md = "map[]" -> "{}"
      [] md = "map[k:v]" -> "{k:v}"
      [] md = "map[k:int(1)]" -> "{k:1}"
      [] md = "map[k:float64(1)]" -> "{k:1}"
      [] OTHER -> Absent

\* encoding/json into a Metadata field: null and a missing key leave nil, a JSON
\* number becomes a float64.
DecMetadata(j) ==
    CASE j = "{}" -> "map[]"
      [] j = "{k:v}" -> "map[k:v]"
      [] j = "{k:1}" -> "map[k:float64(1)]"
      [] OTHER -> "nil"

\* json.Marshal fails on a value it cannot encode (a channel inside the metadata).
MarshalFails(m) == HasMetadata(m.variant) /\ m.Metadata = "map[k:chan]"

\* json.Marshal(m): every struct field is written under its json tag; the
\* discriminator written is the Event field.
Marshal(m) ==
    Frame(m.Event, m.StreamID,
          IF HasConfig(m.variant) THEN m.InputFormat ELSE Absent,
          IF HasMetadata(m.variant) THEN EncMetadata(m.Metadata) ELSE Absent,
          IF HasMedia(m.variant) THEN m.Payload ELSE Absent,
          IF HasDTMF(m.variant) THEN m.DTMF ELSE Absent)

\* The switch of UnmarshalMessage: the variant allocated for a discriminator.
VariantForEvent(ev) ==
    CASE ev = "ack" -> "Ack"
      [] ev = "media_output" -> "MediaOutput"
      [] ev = "clear" -> "Clear"
      [] ev = "dtmf" -> "DTMF"
      [] ev = "custom" -> "Custom"
      [] OTHER -> "nil"

\* A string field decoded from a JSON value: a missing key leaves the zero value.
DecString(j) == IF j = Absent THEN "" ELSE j

\* The second json.Unmarshal rejects a string field holding a number.
ShapeError(data, v) ==
    \/ data.stream_id = BadType
    \/ HasMedia(v) /\ data.payload = BadType
    \/ HasDTMF(v) /\ data.dtmf = BadType

UnmarshalMessage(data) ==
    IF ~data.ok \/ data.event = BadType
    THEN [err |-> "json", msg |-> NilMsg]
    ELSE LET ev == DecString(data.event)
             v == VariantForEvent(ev)
         IN IF v = "nil"
            THEN [err |-> "ErrUnknownMessageType", msg |-> NilMsg]
            ELSE IF ShapeError(data, v)
            THEN [err |-> "json", msg |-> NilMsg]
            ELSE [err |-> "nil",
                  msg |-> Msg(v, ev, DecString(data.stream_id),
                              DecString(data.input_format),
                              DecMetadata(data.metadata),
                              DecString(data.payload),
                              DecString(data.dtmf))]

\* The messages the round trip is tried on: every variant, built as the program
\* builds them (Event set to the variant's tag), over small field domains.
CodecMessages ==
    { Msg(v, TypeOf(v), sid, fmt, md, pl, d) :
        v \in Variants, sid \in {"", "sid_1"}, fmt \in InputFormats \cup {""},
        md \in GoMetadata, pl \in {"", "AAEC"}, d \in {"", "5"} }

CodecOff == cpc = "off" /\ cmsg = NilMsg /\ cdata = Garbage
            /\ cres = [err |-> "nil", msg |-> NilMsg]

CodecMarshal ==
    /\ cpc = "start"
    /\ IF MarshalFails(cmsg)
       THEN cpc' = "marshalErr" /\ cdata' = cdata
       ELSE cpc' = "marshalled" /\ cdata' = Marshal(cmsg)
    /\ UNCHANGED <<cmsg, cres, sessVars, ctlVars, chunkVars>>

CodecUnmarshal ==
    /\ cpc = "marshalled"
    /\ cres' = UnmarshalMessage(cdata)
    /\ cpc' = "done"
    /\ UNCHANGED <<cmsg, cdata, sessVars, ctlVars, chunkVars>>

\* ----------------------------------------------------------------- the wire
\* What the server plays on the socket: a fixed pattern of frame kinds, started at
\* an offset the script chooses.  Frame i carries stream_id "f<i>", so that every
\* frame is distinguishable from every other.
Pattern ==
    <<"ack", "media_output", "clear", "garbage",
      "ack", "media_output", "unknown", "media_output",
      "dtmf", "custom", "badshape", "media_output",
      "media_output", "clear", "media_output", "start">>

\* Offsets: an Ack first; a MediaOutput first; a malformed frame, then an Ack;
\* an unknown discriminator, then a MediaOutput.
Scripts == {0, 1, 3, 6}

KindAt(s, i) == Pattern[((i + s - 1) % Len(Pattern)) + 1]

FrameOfKind(k, sid) ==
    CASE k = "ack" -> Frame("ack", sid, "pcm_44100", Absent, Absent, Absent)
      [] k = "media_output" -> Frame("media_output", sid, Absent, Absent, "AAEC", Absent)
      [] k = "clear" -> Frame("clear", sid, Absent, Absent, Absent, Absent)
      [] k = "dtmf" -> Frame("dtmf", sid, Absent, Absent, Absent, "5")
      [] k = "custom" -> Frame("custom", sid, Absent, "{k:1}", Absent, Absent)
      [] k = "unknown" -> Frame("bogus", sid, Absent, Absent, Absent, Absent)
      [] k = "start" -> Frame("start", sid, "pcm_44100", "null", Absent, Absent)
      [] k = "badshape" -> Frame("media_output", BadType, Absent, Absent, "AAEC", Absent)
      [] OTHER -> Garbage

WireFrame(s, i) == FrameOfKind(KindAt(s, i), "f" \o ToString(i))

\* The messages the first n frames of script s decode to, in wire order.
RECURSIVE Decoded(_, _)
Decoded(s, n) ==
    IF n = 0 THEN <<>>
    ELSE LET r == UnmarshalMessage(WireFrame(s, n))
         IN IF r.err = "nil" THEN Append(Decoded(s, n - 1), r.msg)
            ELSE Decoded(s, n - 1)

IsPrefix(a, b) == Len(a) <= Len(b) /\ SubSeq(b, 1, Len(a)) = a

\* ------------------------------------------------------------ session: read
\* context.CancelFunc: closes Done(), once and for all.
Cancel == cancelled' = TRUE

\* ctx.Done() is ready.
CtxDoneReady == cancelled

\* The deferred s.cancel() and s.wg.Done() of a loop that returns.
LoopReturns == Cancel /\ wg' = wg - 1

\* s.readCh <- m can proceed: the buffer has room.
MailboxHasRoom == Len(readCh) < MailboxCap

\* A push that jumps the queue.
PushFront(ch, m) == <<m>> \o ch

\* s.readCh <- m
PushTo(ch, m) == Append(ch, m)

\* A push select without its ctx.Done() case.
PushIgnoresCancel == FALSE

\* case <-ctx.Done() of the push select.
PushSeesCancel == CtxDoneReady

\* What read() does with a frame that failed to decode: log and continue.
AfterDecodeError == "check"

\* What the reader loop never touches.
ReaderRest ==
    UNCHANGED <<script, readChClosed, pingPc, closePc, connClosed, ctxDone,
                ctxDoneBeforeMsg, hsPc, hsResult, hsGot, delivered, sent,
                nSends, sendErr, codecVars, chunkVars, ctlVars>>

\* select { case <-ctx.Done(): return; default: }
ReaderCheck ==
    /\ readerPc = "check"
    /\ IF CtxDoneReady
       THEN /\ readerPc' = "done" /\ readerWhy' = "ctx"
            /\ LoopReturns
       ELSE /\ readerPc' = "read"
            /\ UNCHANGED <<readerWhy, cancelled, wg>>
    /\ UNCHANGED <<readCount, pending, readCh>>
    /\ ReaderRest

\* s.conn.Read(ctx) returns a frame; UnmarshalMessage decides between continue
\* and the push.
ReaderReadFrame ==
    /\ readerPc = "read"
    /\ readCount < MaxFrames
    /\ ~connClosed
    /\ readCount' = readCount + 1
    /\ LET r == UnmarshalMessage(WireFrame(script, readCount + 1))
       IN IF r.err # "nil"
          THEN readerPc' = AfterDecodeError /\ pending' = pending
          ELSE readerPc' = "push" /\ pending' = r.msg
    /\ UNCHANGED <<readerWhy, readCh, cancelled, wg>>
    /\ ReaderRest

\* s.conn.Read(ctx) returns an error because ctx was cancelled.
ReaderReadCancelled ==
    /\ readerPc = "read"
    /\ CtxDoneReady
    /\ readerPc' = "done" /\ readerWhy' = "readErr"
    /\ LoopReturns
    /\ UNCHANGED <<readCount, pending, readCh>>
    /\ ReaderRest

\* s.conn.Read(ctx) returns a transport error (the peer or the network failed).
ReaderReadFail ==
    /\ readerPc = "read"
    /\ ~CtxDoneReady
    /\ readerPc' = "done" /\ readerWhy' = "readErr"
    /\ LoopReturns
    /\ UNCHANGED <<readCount, pending, readCh>>
    /\ ReaderRest

\* case s.readCh <- m
ReaderPush ==
    /\ readerPc = "push"
    /\ MailboxHasRoom
    /\ readCh' = PushTo(readCh, pending)
    /\ readerPc' = "check"
    /\ UNCHANGED <<readCount, readerWhy, pending, cancelled, wg>>
    /\ ReaderRest

\* case <-ctx.Done() of the push select: the message is abandoned.
ReaderPushCancelled ==
    /\ readerPc = "push"
    /\ PushSeesCancel
    /\ readerPc' = "done" /\ readerWhy' = "ctxPush"
    /\ LoopReturns
    /\ UNCHANGED <<readCount, pending, readCh>>
    /\ ReaderRest

\* ------------------------------------------------------------ session: ping
\* What the keep-alive loop never touches.
PingRest ==
    UNCHANGED <<script, readerVars, readCh, readChClosed, closePc, connClosed,
                ctxDone, ctxDoneBeforeMsg, hsPc, hsResult, hsGot, delivered,
                sent, nSends, sendErr, codecVars, chunkVars, ctlVars>>

\* case <-ticker.C: the ping is on its way.
PingTick ==
    /\ pingPc = "wait"
    /\ pingPc' = "ping"
    /\ UNCHANGED <<cancelled, wg>>
    /\ PingRest

\* s.conn.Ping(ctx) returns: nil, and the loop goes back to its select, or an
\* error, and the loop is at its log.Printf.
PingReturn ==
    /\ pingPc = "ping"
    /\ \E err \in {"nil", "err"} :
          pingPc' = IF err = "nil" THEN "wait" ELSE "failed"
    /\ UNCHANGED <<cancelled, wg>>
    /\ PingRest

\* A ping whose failure ends the loop as a return would.
PingFailureFatal == pingPc' = "done" /\ LoopReturns

\* if err != nil { log.Printf(...) }: nothing else, the loop goes on.
PingFailureLogged == pingPc' = "wait" /\ UNCHANGED <<cancelled, wg>>

\* The failed ping is logged.
PingLogError ==
    /\ pingPc = "failed"
    /\ PingFailureLogged
    /\ PingRest

\* case <-ctx.Done(): return
PingExit ==
    /\ pingPc = "wait"
    /\ CtxDoneReady
    /\ pingPc' = "done"
    /\ LoopReturns
    /\ PingRest

\* ----------------------------------------------------------- session: Close
\* A Close that does not wait for the loops.
WaitSkipped == TRUE

\* s.wg.Wait() returns.
WaitGroupDone == wg = 0

\* s.cancel()
CloseCancel ==
    /\ closePc = "idle"
    /\ closePc' = "waiting"
    /\ Cancel

\* What the wait and the socket close of Close() never touch.
CloseRest ==
    UNCHANGED <<script, readerVars, readCh, readChClosed, wg, pingPc, ctxDone,
                ctxDoneBeforeMsg, hsPc, hsResult, hsGot, delivered, sent,
                nSends, sendErr, codecVars, chunkVars, ctlVars>>

\* s.wg.Wait()
CloseWait ==
    /\ closePc = "waiting"
    /\ WaitGroupDone
    /\ closePc' = "closing"
    /\ UNCHANGED <<connClosed, cancelled>>
    /\ CloseRest

\* return s.conn.Close(websocket.StatusNormalClosure, "")
CloseConn ==
    /\ closePc = "closing"
    /\ closePc' = "returned"
    /\ connClosed' = TRUE
    /\ UNCHANGED cancelled
    /\ CloseRest

\* ------------------------------------------------------------ session: Send
\* The error Send returns for message m when the network is (not) healthy:
\* json.Marshal's error, else conn.Write's.
SendError(m, netOk) ==
    IF MarshalFails(m) THEN "marshalErr"
    ELSE IF connClosed \/ ctxDone \/ ~netOk THEN "writeErr"
    ELSE "nil"

\* Send(ctx, m): the frame is written exactly when no error is returned.
Send(m, netOk) ==
    /\ nSends < MaxSends
    /\ nSends' = nSends + 1
    /\ sendErr' = SendError(m, netOk)
    /\ sent' = IF SendError(m, netOk) = "nil" THEN Append(sent, m.Event) ELSE sent

\* ---------------------------------------------------------------- handshake
\* The Start descriptor NewSession sends; metadata is the caller's.
StartMsg(md) == Msg("Start", "start", "sid_1", "pcm_44100", md, NA, NA)

\* What a caller may pass as metadata.
CallerMetadata == {"nil", "map[k:v]", "map[k:chan]"}

\* A handshake that accepts whatever comes first.
IsAnyMessage(m) == TRUE

\* m.(*AckMessage)
IsAck(m) == m.variant = "Ack"

\* websocket.Dial succeeds; newSession builds the session and starts both loops.
HsDialOk ==
    /\ hsPc = "dial"
    /\ hsPc' = "send"
    /\ readerPc' = "check"
    /\ pingPc' = "wait"
    /\ wg' = 2
    /\ UNCHANGED <<script, readCount, readerWhy, pending, readCh, readChClosed,
                   cancelled, closePc, connClosed, ctxDone, ctxDoneBeforeMsg,
                   hsResult, hsGot, delivered, sent, nSends, sendErr,
                   codecVars, chunkVars, ctlVars>>

\* websocket.Dial fails: return nil, err.
HsDialFail ==
    /\ hsPc = "dial"
    /\ hsPc' = "done"
    /\ hsResult' = "dialErr"
    /\ UNCHANGED <<script, readerVars, readCh, readChClosed, cancelled, wg, pingPc,
                   closePc, connClosed, ctxDone, ctxDoneBeforeMsg, hsGot,
                   delivered, sent, nSends, sendErr, codecVars, chunkVars, ctlVars>>

\* s.Send(ctx, start) returns nil.
HsSendOk ==
    /\ hsPc = "send"
    /\ \E md \in CallerMetadata :
         /\ SendError(StartMsg(md), TRUE) = "nil"
         /\ Send(StartMsg(md), TRUE)
    /\ hsPc' = "select"
    /\ UNCHANGED <<script, readerVars, readCh, readChClosed, cancelled, wg, pingPc,
                   closePc, connClosed, ctxDone, ctxDoneBeforeMsg, hsResult, hsGot,
                   delivered, codecVars, chunkVars, ctlVars>>

\* s.Send(ctx, start) returns an error: NewSession calls s.Close().
HsSendFail ==
    /\ hsPc = "send"
    /\ \E md \in CallerMetadata, netOk \in BOOLEAN :
         /\ SendError(StartMsg(md), netOk) # "nil"
         /\ Send(StartMsg(md), netOk)
    /\ hsPc' = "closing"
    /\ CloseCancel
    /\ UNCHANGED <<script, readerVars, readCh, readChClosed, wg, pingPc,
                   connClosed, ctxDone, ctxDoneBeforeMsg, hsResult, hsGot,
                   delivered, codecVars, chunkVars, ctlVars>>

\* s.Close() has returned: return nil, err.
HsSendFailReturn ==
    /\ hsPc = "closing"
    /\ closePc = "returned"
    /\ hsPc' = "done"
    /\ hsResult' = "sendErr"
    /\ UNCHANGED <<script, readerVars, readCh, readChClosed, cancelled, wg, pingPc,
                   closePc, connClosed, ctxDone, ctxDoneBeforeMsg, hsGot,
                   delivered, sent, nSends, sendErr, codecVars, chunkVars, ctlVars>>

\* case m := <-s.Messages(): the session is returned if m is an Ack.
HsRecv ==
    /\ hsPc = "select"
    /\ readCh # <<>>
    /\ hsGot' = Head(readCh)
    /\ readCh' = Tail(readCh)
    /\ delivered' = Append(delivered, Head(readCh))
    /\ hsResult' = IF IsAck(Head(readCh)) THEN "ok" ELSE "notAck"
    /\ hsPc' = "done"
    /\ UNCHANGED <<script, readerVars, readChClosed, cancelled, wg, pingPc,
                   closePc, connClosed, ctxDone, ctxDoneBeforeMsg, sent, nSends,
                   sendErr, codecVars, chunkVars, ctlVars>>

\* case <-ctx.Done(): return nil, "handshake timed out".
HsTimeout ==
    /\ hsPc = "select"
    /\ ctxDone
    /\ hsResult' = "timeout"
    /\ hsPc' = "done"
    /\ UNCHANGED <<script, readerVars, readCh, readChClosed, cancelled, wg, pingPc,
                   closePc, connClosed, ctxDone, ctxDoneBeforeMsg, hsGot,
                   delivered, sent, nSends, sendErr, codecVars, chunkVars, ctlVars>>

\* --------------------------------------------------- the session's owner
\* NewSession returned a Session: only then can anyone use it.
HasSession == hsPc = "done" /\ hsResult = "ok"

\* The media_input frame the owner streams.
MediaInputMsg == Msg("MediaInput", "media_input", "sid_1", NA, NA, "AAEC", NA)

\* <-session.Messages()
OwnerRecv ==
    /\ HasSession
    /\ readCh # <<>>
    /\ readCh' = Tail(readCh)
    /\ delivered' = Append(delivered, Head(readCh))
    /\ UNCHANGED <<script, readerVars, readChClosed, cancelled, wg, pingPc,
                   closePc, connClosed, ctxDone, ctxDoneBeforeMsg, hsPc, hsResult,
                   hsGot, sent, nSends, sendErr, codecVars, chunkVars, ctlVars>>

\* session.Send(ctx, mediaMsg), before Close is called or after it returned.
OwnerSend ==
    /\ HasSession
    /\ closePc \in {"idle", "returned"}
    /\ \E netOk \in BOOLEAN : Send(MediaInputMsg, netOk)
    /\ UNCHANGED <<script, readerVars, readCh, readChClosed, cancelled, wg, pingPc,
                   closePc, connClosed, ctxDone, ctxDoneBeforeMsg, hsPc, hsResult,
                   hsGot, delivered, codecVars, chunkVars, ctlVars>>

\* session.Close()
OwnerClose ==
    /\ HasSession
    /\ CloseCancel
    /\ UNCHANGED <<script, readerVars, readCh, readChClosed, wg, pingPc,
                   connClosed, ctxDone, ctxDoneBeforeMsg, hsPc, hsResult, hsGot,
                   delivered, sent, nSends, sendErr, codecVars, chunkVars, ctlVars>>

\* The caller's context reaches its deadline.
DeadlineExpire ==
    /\ ~ctxDone
    /\ ctxDone' = TRUE
    /\ ctxDoneBeforeMsg' = (delivered = <<>> /\ readCh = <<>>)
    /\ UNCHANGED <<script, readerVars, readCh, readChClosed, cancelled, wg, pingPc,
                   closePc, connClosed, hsPc, hsResult, hsGot, delivered, sent,
                   nSends, sendErr, codecVars, chunkVars, ctlVars>>

\* ---------------------------------------------------------- specifications
SessionOff ==
    /\ script = 0 /\ readCount = 0 /\ readerPc = "none" /\ readerWhy = ""
    /\ pending = NilMsg /\ readCh = <<>> /\ readChClosed = FALSE
    /\ cancelled = FALSE /\ wg = 0 /\ pingPc = "none" /\ closePc = "idle"
    /\ connClosed = FALSE /\ ctxDone = FALSE /\ ctxDoneBeforeMsg = FALSE
    /\ hsPc = "off" /\ hsResult = "" /\ hsGot = NilMsg /\ delivered = <<>>
    /\ sent = <<>> /\ nSends = 0 /\ sendErr = "nil"

CtlOff ==
    /\ ctlPc = "off" /\ ctlWhy = "" /\ ctlErr = "nil"
    /\ greetingComplete = FALSE /\ questionSent = FALSE /\ agentSpeaking = FALSE
    /\ sinceAudio = 0 /\ timerReady = FALSE /\ sendQuestionCloses = 0
    /\ questionCompleteClosed = FALSE /\ questionCompleteNil = FALSE
    /\ responseDone = <<>> /\ mainPc = "off" /\ mainErr = "nil" /\ clearLogged = FALSE
    /\ agentCount = 0 /\ arrivedAfter = FALSE

ChunkOff ==
    /\ chPc = "off" /\ audioLen = 0 /\ offset = 0 /\ silenceI = 0
    /\ chunks = <<>> /\ chErr = "nil"

\* NewSession is entered: the context is live, nothing is dialled yet.
Init ==
    /\ CodecOff
    /\ ChunkOff
    /\ CtlOff
    /\ script \in Scripts
    /\ readCount = 0 /\ readerPc = "none" /\ readerWhy = ""
    /\ pending = NilMsg /\ readCh = <<>> /\ readChClosed = FALSE
    /\ cancelled = FALSE /\ wg = 0 /\ pingPc = "none" /\ closePc = "idle"
    /\ connClosed = FALSE /\ ctxDone = FALSE /\ ctxDoneBeforeMsg = FALSE
    /\ hsPc = "dial" /\ hsResult = "" /\ hsGot = NilMsg /\ delivered = <<>>
    /\ sent = <<>> /\ nSends = 0 /\ sendErr = "nil"

Next ==
    \/ ReaderCheck
    \/ ReaderReadFrame
    \/ ReaderReadCancelled
    \/ ReaderReadFail
    \/ ReaderPush
    \/ ReaderPushCancelled
    \/ PingTick
    \/ PingReturn
    \/ PingLogError
    \/ PingExit
    \/ CloseWait
    \/ CloseConn
    \/ HsDialOk
    \/ HsDialFail
    \/ HsSendOk
    \/ HsSendFail
    \/ HsSendFailReturn
    \/ HsRecv
    \/ HsTimeout
    \/ OwnerRecv
    \/ OwnerSend
    \/ OwnerClose
    \/ DeadlineExpire

Spec == Init /\ [][Next]_vars

\* The Go scheduler runs every goroutine that can take a step of its own.  A
\* socket read is not such a step unless the context is cancelled (the peer may
\* stay silent), and a select with several ready cases picks each of them
\* sooner or later (strong fairness for the keep-alive loop's exit).
Fairness ==
    /\ WF_vars(ReaderCheck)
    /\ WF_vars(ReaderReadCancelled)
    /\ WF_vars(ReaderPush \/ ReaderPushCancelled)
    /\ WF_vars(PingReturn)
    /\ WF_vars(PingLogError)
    /\ SF_vars(PingExit)
    /\ WF_vars(CloseWait)
    /\ WF_vars(CloseConn)

FairSpec == Spec /\ Fairness

CodecInit ==
    /\ SessionOff
    /\ CtlOff
    /\ ChunkOff
    /\ cpc = "start"
    /\ cmsg \in CodecMessages
    /\ cdata = Garbage
    /\ cres = [err |-> "nil", msg |-> NilMsg]

CodecNext ==
    \/ CodecMarshal
    \/ CodecUnmarshal

CodecSpec == CodecInit /\ [][CodecNext]_vars

\* ------------------------------------------------- turn-taking controller
\* The clock stops counting once every comparison of the controller is decided.
ElapsedCap == ResponseTimeout + 1

\* base64.StdEncoding.DecodeString(m.Media.Payload): "ok", or "err".
Base64Decodes(pl) == pl \in {"", "AAEC"}

\* len(audioData) of a payload that decodes.
AudioLen(pl) == IF pl = "AAEC" THEN 3 ELSE 0

\* What the agent sends while the controller listens: audio, an empty payload,
\* a payload that is not base64, a Clear, a DTMF.
AgentMessages ==
    { Msg("MediaOutput", "media_output", "sid_1", NA, NA, pl, NA) :
        pl \in {"AAEC", "", "!!"} }
    \cup { Msg("Clear", "clear", "sid_1", NA, NA, NA, NA),
           Msg("DTMF", "dtmf", "sid_1", NA, NA, NA, "5") }

\* A new iteration of the for loop: select builds a fresh time.After(100ms).
NewSelect == timerReady' = FALSE

\* A return that does not record the statement it left by.
CtlReturnUnnamed(why, err) ==
    /\ ctlPc' = "done"
    /\ ctlWhy' = ""
    /\ ctlErr' = err
    /\ responseDone' = Append(responseDone, err)

\* listenForResponses returns err through the return statement why; the goroutine
\* of runConversation puts err on responseDone (buffered, never blocks).
CtlReturn(why, err) ==
    /\ ctlPc' = "done"
    /\ ctlWhy' = why
    /\ ctlErr' = err
    /\ responseDone' = Append(responseDone, err)

\* A greeting rule that forgets the greeting is already complete.
GreetingSilenceAgain ==
    agentSpeaking /\ sinceAudio > SilenceThreshold

\* agentSpeaking && !greetingComplete && elapsed > silenceThreshold
GreetingSilence ==
    agentSpeaking /\ ~greetingComplete /\ sinceAudio > SilenceThreshold

\* A response rule that does not ask whether the agent spoke.
ResponseSilenceUnspoken(gc, sp) ==
    gc /\ questionSent /\ sinceAudio > SilenceThreshold

\* greetingComplete && questionSent && agentSpeaking && elapsed > silenceThreshold,
\* read after the greeting rule has run.
ResponseSilence(gc, sp) ==
    gc /\ questionSent /\ sp /\ sinceAudio > SilenceThreshold

\* greetingComplete && questionSent && !agentSpeaking && elapsed > responseTimeout
ResponseTimedOut(gc, sp) ==
    gc /\ questionSent /\ ~sp /\ sinceAudio > ResponseTimeout

\* A switch that takes a Clear for agent audio.
CarriesAudioOrClear(m) ==
    \/ m.variant = "Clear"
    \/ /\ m.variant = "MediaOutput"
       /\ Base64Decodes(m.Payload)
       /\ AudioLen(m.Payload) > 0

\* case *MediaOutputMessage whose payload decodes to len(audioData) > 0
CarriesAudio(m) ==
    /\ m.variant = "MediaOutput"
    /\ Base64Decodes(m.Payload)
    /\ AudioLen(m.Payload) > 0

\* What the controller's steps never touch.
CtlRest == UNCHANGED <<codecVars, chunkVars, script, readerVars, readChClosed,
                       cancelled, wg,
                       pingPc, closePc, connClosed, ctxDone, ctxDoneBeforeMsg, hsPc,
                       hsResult, hsGot, delivered, sent, nSends, sendErr,
                       questionCompleteClosed, mainPc, mainErr, agentCount,
                       arrivedAfter>>

\* case msg, ok := <-session.Messages()
CtlMessage ==
    /\ ctlPc = "run"
    /\ readCh # <<>> \/ readChClosed
    /\ IF readCh = <<>>
       THEN /\ CtlReturn("chanClosed", "message channel closed")
            /\ UNCHANGED <<readCh, agentSpeaking, sinceAudio, timerReady, clearLogged>>
       ELSE LET m == Head(readCh)
                audio == CarriesAudio(m)
            IN /\ readCh' = Tail(readCh)
               /\ clearLogged' = (clearLogged \/ m.variant = "Clear")
               /\ \/ /\ audio
                     \* recorder.WriteRight succeeds
                     /\ agentSpeaking' = TRUE
                     /\ sinceAudio' = 0
                     /\ NewSelect
                     /\ UNCHANGED <<ctlPc, ctlWhy, ctlErr, responseDone>>
                  \/ /\ audio
                     \* recorder.WriteRight fails
                     /\ CtlReturn("writeErr", "write audio error")
                     /\ UNCHANGED <<agentSpeaking, sinceAudio, timerReady>>
                  \/ /\ ~audio
                     /\ NewSelect
                     /\ UNCHANGED <<ctlPc, ctlWhy, ctlErr, responseDone,
                                    agentSpeaking, sinceAudio>>
    /\ UNCHANGED <<greetingComplete, questionSent, sendQuestionCloses,
                   questionCompleteNil>>
    /\ CtlRest

\* case <-questionComplete
CtlQuestionComplete ==
    /\ ctlPc = "run"
    /\ questionCompleteClosed /\ ~questionCompleteNil
    /\ IF ~questionSent
       THEN questionSent' = TRUE /\ agentSpeaking' = FALSE /\ sinceAudio' = 0
       ELSE UNCHANGED <<questionSent, agentSpeaking, sinceAudio>>
    /\ questionCompleteNil' = TRUE
    /\ NewSelect
    /\ UNCHANGED <<ctlPc, ctlWhy, ctlErr, responseDone, greetingComplete,
                   sendQuestionCloses, readCh, clearLogged>>
    /\ CtlRest

\* case <-time.After(100 * time.Millisecond): the three rules, in order.
CtlTick ==
    /\ ctlPc = "run"
    /\ timerReady
    /\ LET greet == GreetingSilence
           gc == greetingComplete \/ greet
           sp == agentSpeaking /\ ~greet
       IN /\ greetingComplete' = gc
          /\ agentSpeaking' = sp
          /\ sendQuestionCloses' = IF greet THEN sendQuestionCloses + 1
                                   ELSE sendQuestionCloses
          /\ IF ResponseSilence(gc, sp)
             THEN CtlReturn("complete", "nil") /\ UNCHANGED timerReady
             ELSE IF ResponseTimedOut(gc, sp)
             THEN CtlReturn("timeout", "nil") /\ UNCHANGED timerReady
             ELSE NewSelect /\ UNCHANGED <<ctlPc, ctlWhy, ctlErr, responseDone>>
    /\ UNCHANGED <<questionSent, sinceAudio, questionCompleteNil, readCh,
                   clearLogged>>
    /\ CtlRest

\* case <-ctx.Done(): return ctx.Err()
CtlDeadline ==
    /\ ctlPc = "run"
    /\ ctxDone
    /\ CtlReturn("deadline", "ctx.Err()")
    /\ UNCHANGED <<greetingComplete, questionSent, agentSpeaking, sinceAudio,
                   timerReady, sendQuestionCloses, questionCompleteNil, readCh,
                   clearLogged>>
    /\ CtlRest

\* ---------------------------------------------------------- runConversation
\* What runConversation's steps never touch.
MainRest == UNCHANGED <<codecVars, chunkVars, script, readerVars, readCh,
                        readChClosed,
                        cancelled, wg, pingPc, closePc, connClosed,
                        ctxDoneBeforeMsg, hsPc, hsResult, hsGot, delivered, sent,
                        nSends, sendErr, ctlPc, ctlWhy, ctlErr, greetingComplete,
                        questionSent, agentSpeaking, sinceAudio, timerReady,
                        sendQuestionCloses, questionCompleteNil, clearLogged,
                        agentCount, arrivedAfter>>

\* A receive that does not wait for the channel to be closed.
SendQuestionAnyTime == TRUE

\* <-sendQuestion can proceed: nothing is ever sent on the channel, it has
\* been closed.
SendQuestionClosed == sendQuestionCloses > 0

\* case <-sendQuestion
MainGreetingDone ==
    /\ mainPc = "waitGreeting"
    /\ SendQuestionClosed
    /\ mainPc' = "sendAudio"
    /\ UNCHANGED <<mainErr, responseDone, questionCompleteClosed, ctxDone>>
    /\ MainRest

\* case err := <-responseDone: return err
MainEarlyDone ==
    /\ mainPc = "waitGreeting"
    /\ responseDone # <<>>
    /\ mainPc' = "returned"
    /\ mainErr' = Head(responseDone)
    /\ responseDone' = Tail(responseDone)
    /\ UNCHANGED <<questionCompleteClosed, ctxDone>>
    /\ MainRest

\* case <-ctx.Done(): return ctx.Err()
MainDeadline ==
    /\ mainPc = "waitGreeting"
    /\ ctxDone
    /\ mainPc' = "returned"
    /\ mainErr' = "ctx.Err()"
    /\ UNCHANGED <<responseDone, questionCompleteClosed, ctxDone>>
    /\ MainRest

\* sendAudioFile starts streaming the question: it enters
\* recorder.WriteLeft(chunk) for the first chunk.
MainSendAudio ==
    /\ mainPc = "sendAudio"
    /\ mainPc' = "writeLeft"
    /\ UNCHANGED <<mainErr, responseDone, questionCompleteClosed, ctxDone>>
    /\ MainRest

\* recorder.WriteLeft returns nil: session.Send and the pacing sleep follow.
MainWroteLeft ==
    /\ mainPc = "writeLeft"
    /\ mainPc' = "sending"
    /\ UNCHANGED <<mainErr, responseDone, questionCompleteClosed, ctxDone>>
    /\ MainRest

\* The loops of sendAudioFile go round: recorder.WriteLeft for the next chunk.
MainNextChunk ==
    /\ mainPc = "sending"
    /\ ~ctxDone
    /\ mainPc' = "writeLeft"
    /\ UNCHANGED <<mainErr, responseDone, questionCompleteClosed, ctxDone>>
    /\ MainRest

\* Every session.Send of sendAudioFile has returned nil, the last one included.
MainAudioSent ==
    /\ mainPc = "sending"
    /\ ~ctxDone
    /\ mainPc' = "audioSent"
    /\ UNCHANGED <<mainErr, responseDone, questionCompleteClosed, ctxDone>>
    /\ MainRest

\* sendAudioFile returns nil: close(questionComplete).
MainQuestionSent ==
    /\ mainPc = "audioSent"
    /\ mainPc' = "waitDone"
    /\ questionCompleteClosed' = TRUE
    /\ UNCHANGED <<mainErr, responseDone, ctxDone>>
    /\ MainRest

\* sendAudioFile returns an error (of the recorder, of session.Send): return
\* "failed to send audio".
MainSendAudioFail ==
    /\ mainPc \in {"writeLeft", "sending"}
    /\ mainPc' = "returned"
    /\ mainErr' = "failed to send audio"
    /\ UNCHANGED <<responseDone, questionCompleteClosed, ctxDone>>
    /\ MainRest

\* err := <-responseDone; return err (nil after logging "Audio saved").
MainDone ==
    /\ mainPc = "waitDone"
    /\ responseDone # <<>>
    /\ mainPc' = "returned"
    /\ mainErr' = Head(responseDone)
    /\ responseDone' = Tail(responseDone)
    /\ UNCHANGED <<questionCompleteClosed, ctxDone>>
    /\ MainRest

\* The first deferred call of runConversation to run: recorder.Close().
MainRecorderClose ==
    /\ mainPc = "returned"
    /\ mainPc' = "deferred"
    /\ UNCHANGED <<mainErr, responseDone, questionCompleteClosed, ctxDone>>
    /\ MainRest

\* The recorder's encoder and file have been closed.
RecorderClosed == mainPc \in {"deferred", "exited"}

\* The other deferred calls of runConversation, the last of which is cancel().
MainDeferred ==
    /\ mainPc = "deferred"
    /\ mainPc' = "exited"
    /\ ctxDone' = TRUE
    /\ UNCHANGED <<mainErr, responseDone, questionCompleteClosed>>
    /\ MainRest

\* -------------------------------------------------- controller: environment
\* What the environment's steps never touch.
EnvRest == UNCHANGED <<codecVars, chunkVars, script, readerVars, readChClosed,
                       cancelled, wg,
                       pingPc, closePc, connClosed, ctxDoneBeforeMsg, hsPc,
                       hsResult, hsGot, delivered, sent, nSends, sendErr, ctlPc,
                       ctlWhy, ctlErr, greetingComplete, questionSent,
                       agentSpeaking, sendQuestionCloses, questionCompleteClosed,
                       questionCompleteNil, responseDone, mainPc, mainErr>>

\* sendAudioFile has sent its last chunk.
QuestionFullySent == mainPc = "audioSent" \/ questionCompleteClosed

\* The reader loop, alive, reads the next message of the agent and queues it.
AgentSends ==
    /\ readerPc = "read"
    /\ agentCount < MaxAgentMsgs
    /\ MailboxHasRoom
    /\ \E m \in AgentMessages : readCh' = PushTo(readCh, m)
    /\ agentCount' = agentCount + 1
    /\ arrivedAfter' = (arrivedAfter \/ QuestionFullySent)
    /\ UNCHANGED <<sinceAudio, timerReady, ctxDone, clearLogged>>
    /\ EnvRest

\* One timer period passes: the pending time.After fires.
TimePasses ==
    /\ mainPc # "exited"
    /\ sinceAudio' = IF sinceAudio < ElapsedCap THEN sinceAudio + 1 ELSE sinceAudio
    /\ timerReady' = TRUE
    /\ UNCHANGED <<readCh, clearLogged, agentCount, arrivedAfter, ctxDone>>
    /\ EnvRest

\* context.WithTimeout(60s) expires.
CtlDeadlineExpire ==
    /\ ~ctxDone
    /\ ctxDone' = TRUE
    /\ UNCHANGED <<readCh, clearLogged, agentCount, arrivedAfter, sinceAudio,
                   timerReady>>
    /\ EnvRest

\* NewSession has returned the session (the reader loop is back in conn.Read);
\* runConversation has started the controller goroutine and waits for the
\* greeting.
CtlInit ==
    /\ CodecOff
    /\ ChunkOff
    /\ script = 0 /\ readCount = 1 /\ readerPc = "read" /\ readerWhy = ""
    /\ pending = Head(Decoded(0, 1)) /\ readCh = <<>> /\ readChClosed = FALSE
    /\ cancelled = FALSE /\ wg = 2 /\ pingPc = "wait" /\ closePc = "idle"
    /\ connClosed = FALSE /\ ctxDone = FALSE /\ ctxDoneBeforeMsg = FALSE
    /\ hsPc = "done" /\ hsResult = "ok" /\ hsGot = Head(Decoded(0, 1))
    /\ delivered = <<Head(Decoded(0, 1))>>
    /\ sent = <<"start">> /\ nSends = 1 /\ sendErr = "nil"
    /\ ctlPc = "run" /\ ctlWhy = "" /\ ctlErr = "nil"
    /\ greetingComplete = FALSE /\ questionSent = FALSE /\ agentSpeaking = FALSE
    /\ sinceAudio = 0 /\ timerReady = FALSE /\ sendQuestionCloses = 0
    /\ questionCompleteClosed = FALSE /\ questionCompleteNil = FALSE
    /\ responseDone = <<>> /\ mainPc = "waitGreeting" /\ mainErr = "nil"
    /\ clearLogged = FALSE /\ agentCount = 0 /\ arrivedAfter = FALSE

CtlNext ==
    \/ CtlMessage
    \/ CtlQuestionComplete
    \/ CtlTick
    \/ CtlDeadline
    \/ MainGreetingDone
    \/ MainEarlyDone
    \/ MainDeadline
    \/ MainSendAudio
    \/ MainWroteLeft
    \/ MainNextChunk
    \/ MainAudioSent
    \/ MainQuestionSent
    \/ MainSendAudioFail
    \/ MainDone
    \/ MainRecorderClose
    \/ MainDeferred
    \/ AgentSends
    \/ TimePasses
    \/ CtlDeadlineExpire

CtlSpec == CtlInit /\ [][CtlNext]_vars

\* The conversation on a connection that may fail under the reader loop.
ReadFailNext ==
    \/ CtlNext
    \/ ReaderReadFail

ReadFailSpec == CtlInit /\ [][ReadFailNext]_vars

\* ------------------------------------------------------------ audio chunker
\* const CHUNK_SIZE = 8820
CHUNK_SIZE == 8820

\* for i := 0; i < 10; i++
SilenceChunks == 10

\* The buffer lengths sendAudioFile is run on: empty, one byte, around one
\* chunk, whole multiples of the chunk size, and 100,000 bytes.
AudioLens == {0, 1, CHUNK_SIZE - 1, CHUNK_SIZE, CHUNK_SIZE + 1, 2 * CHUNK_SIZE,
              11 * CHUNK_SIZE, 100000}

\* An end that is not clamped to the buffer.
ChunkEndUnclamped(off, n) == off + CHUNK_SIZE

\* end := min(offset+CHUNK_SIZE, len(audioData))
ChunkEnd(off, n) == IF off + CHUNK_SIZE < n THEN off + CHUNK_SIZE ELSE n

\* chunk := audioData[offset:end], as the byte range it is; a silence chunk is
\* make([]byte, CHUNK_SIZE), no part of the buffer.
DataChunk(lo, hi) == [kind |-> "data", lo |-> lo, hi |-> hi]
SilenceChunk == [kind |-> "silence", lo |-> 0, hi |-> CHUNK_SIZE]

\* sendAudioFile returns err.
ChunkReturns(err) == chPc' = "done" /\ chErr' = err

\* What sendAudioFile's steps never touch.
ChunkRest == UNCHANGED <<codecVars, sessVars, ctlVars>>

\* readWAVData returns the PCM bytes.
ChunkReadOk ==
    /\ chPc = "read"
    /\ chPc' = "data"
    /\ UNCHANGED <<audioLen, offset, silenceI, chunks, chErr>>
    /\ ChunkRest

\* readWAVData fails: return "read WAV error".
ChunkReadFail ==
    /\ chPc = "read"
    /\ ChunkReturns("read WAV error")
    /\ UNCHANGED <<audioLen, offset, silenceI, chunks>>
    /\ ChunkRest

\* One iteration of the data loop: WriteLeft, Send, offset += CHUNK_SIZE.
ChunkSend ==
    /\ chPc = "data"
    /\ offset < audioLen
    /\ chunks' = Append(chunks, DataChunk(offset, ChunkEnd(offset, audioLen)))
    /\ offset' = offset + CHUNK_SIZE
    /\ UNCHANGED <<chPc, audioLen, silenceI, chErr>>
    /\ ChunkRest

\* recorder.WriteLeft(chunk) fails: return "write audio error".
ChunkWriteFail ==
    /\ chPc = "data"
    /\ offset < audioLen
    /\ ChunkReturns("write audio error")
    /\ UNCHANGED <<audioLen, offset, silenceI, chunks>>
    /\ ChunkRest

\* session.Send fails: return "send audio error" or "send silence error".
ChunkSendFail ==
    /\ \/ chPc = "data" /\ offset < audioLen /\ ChunkReturns("send audio error")
       \/ chPc = "silence" /\ silenceI < SilenceChunks
            /\ ChunkReturns("send silence error")
    /\ UNCHANGED <<audioLen, offset, silenceI, chunks>>
    /\ ChunkRest

\* offset < len(audioData) is false: the data loop ends.
ChunkDataDone ==
    /\ chPc = "data"
    /\ offset >= audioLen
    /\ chPc' = "silence"
    /\ UNCHANGED <<audioLen, offset, silenceI, chunks, chErr>>
    /\ ChunkRest

\* One iteration of the silence loop.
ChunkSilence ==
    /\ chPc = "silence"
    /\ silenceI < SilenceChunks
    /\ chunks' = Append(chunks, SilenceChunk)
    /\ silenceI' = silenceI + 1
    /\ UNCHANGED <<chPc, audioLen, offset, chErr>>
    /\ ChunkRest

\* return nil
ChunkDone ==
    /\ chPc = "silence"
    /\ silenceI >= SilenceChunks
    /\ ChunkReturns("nil")
    /\ UNCHANGED <<audioLen, offset, silenceI, chunks>>
    /\ ChunkRest

ChunkInit ==
    /\ CodecOff
    /\ SessionOff
    /\ CtlOff
    /\ chPc = "read" /\ audioLen \in AudioLens /\ offset = 0 /\ silenceI = 0
    /\ chunks = <<>> /\ chErr = "nil"

ChunkNext ==
    \/ ChunkReadOk
    \/ ChunkReadFail
    \/ ChunkSend
    \/ ChunkWriteFail
    \/ ChunkSendFail
    \/ ChunkDataDone
    \/ ChunkSilence
    \/ ChunkDone

ChunkSpec == ChunkInit /\ [][ChunkNext]_vars

\* ------------------------------------------- controller: a stream of messages
\* What the agent sends in a stream: audio, and the messages without audio it
\* may keep sending, Clear and MediaOutput with an empty payload.
StreamMessages ==
    { m \in AgentMessages :
        \/ CarriesAudio(m)
        \/ m.variant = "Clear"
        \/ m.variant = "MediaOutput" /\ m.Payload = "" }

\* The controller waits in its select, nothing is ready; a little less than one
\* timer period after the select began the reader loop queues a message.  The
\* clock has moved on, the time.After of this select has not fired.  (With
\* gaps between 100/101 and 1 period the comparisons of elapsed with the two
\* thresholds come out as with the clock counted here.)
AgentSendsBeforeTimer ==
    /\ readerPc = "read"
    /\ ctlPc = "run"
    /\ readCh = <<>>
    /\ ~timerReady
    /\ \E m \in StreamMessages : readCh' = PushTo(readCh, m)
    /\ sinceAudio' = IF sinceAudio < ElapsedCap THEN sinceAudio + 1 ELSE sinceAudio
    /\ arrivedAfter' = (arrivedAfter \/ QuestionFullySent)
    /\ UNCHANGED <<timerReady, ctxDone, clearLogged, agentCount>>
    /\ EnvRest

\* The conversation with such an agent, within its deadline.
TimerNext ==
    \/ CtlMessage
    \/ CtlQuestionComplete
    \/ CtlTick
    \/ CtlDeadline
    \/ MainGreetingDone
    \/ MainEarlyDone
    \/ MainSendAudio
    \/ MainWroteLeft
    \/ MainNextChunk
    \/ MainAudioSent
    \/ MainQuestionSent
    \/ MainSendAudioFail
    \/ MainDone
    \/ MainRecorderClose
    \/ MainDeferred
    \/ AgentSendsBeforeTimer
    \/ TimePasses

\* Time goes on; the scheduler runs the controller and runConversation when they
\* can take a step; a select takes a case that is ready again and again (the
\* timer case: strong fairness).  Nothing obliges the agent to send, the
\* deadline to expire or a send to fail.
TimerFairness ==
    /\ WF_vars(TimePasses \/ AgentSendsBeforeTimer)
    /\ WF_vars(CtlMessage)
    /\ WF_vars(CtlQuestionComplete)
    /\ SF_vars(CtlTick)
    /\ SF_vars(CtlDeadline)
    /\ WF_vars(MainGreetingDone)
    /\ WF_vars(MainSendAudio)
    /\ WF_vars(MainWroteLeft)
    /\ WF_vars(MainAudioSent)
    /\ WF_vars(MainQuestionSent)
    /\ WF_vars(MainDone)

TimerSpec == CtlInit /\ [][TimerNext]_vars /\ TimerFairness

\* ================================================================== claims
LoopsExited == readerPc = "done" /\ pingPc = "done"

\* C1: Close is a barrier.  Whenever Close has returned, the reader loop and the
\* keep-alive loop have both exited; the socket is closed only when both have
\* exited; and from then on no step adds a message to the mailbox.
C1_CloseIsBarrier ==
    /\ [](closePc = "returned" => LoopsExited)
    /\ [](connClosed => LoopsExited)
    /\ [][closePc = "returned"
           => (readCh' = readCh \/ (readCh # <<>> /\ readCh' = Tail(readCh)))]_vars

\* Close returned although the reader was suspended in a push when the token fired.
C1_Witness ==
    closePc = "returned" /\ connClosed /\ readerWhy = "ctxPush" /\ Len(readCh) > 0

\* C2: once Close has fired the token and waits for the loops, it returns, wherever
\* the loops were suspended (under the scheduler's fairness).
C2_CloseReturns == (closePc = "waiting") ~> (closePc = "returned")

\* Close returned with the mailbox still full: the reader was blocked in a push
\* that nobody drained and gave the message up.
C2_Witness ==
    closePc = "returned" /\ Len(readCh) = MailboxCap /\ readerWhy = "ctxPush"

\* C3 (as claimed): once the reader loop has exited, the stream of Messages() is
\* closed, so a consumer that has drained it sees end-of-stream.
C3_StreamClosedOnExit == readerPc = "done" => readChClosed

\* C4 (as claimed): a Send made after Close has returned fails with
\* ErrSessionClosed and writes nothing.
C4_SendAfterClose ==
    [][(closePc = "returned" /\ nSends' = nSends + 1)
         => (sendErr' = "ErrSessionClosed" /\ sent' = sent)]_vars

\* What the reader holds between decoding a message and queueing it.
InFlight == IF readerPc = "push" THEN <<pending>> ELSE <<>>

\* C5: the consumer sees the decoded messages in wire order.  What was received
\* followed by what is queued is always a prefix of the messages the frames read
\* so far decode to; while the token has not fired nothing is missing (a message
\* waiting for room in a full mailbox is held, not dropped); and a frame that
\* fails to decode sends the reader back to the top of its loop.
C5_WireOrder ==
    /\ [](IsPrefix(delivered \o readCh, Decoded(script, readCount)))
    /\ [](~cancelled /\ readerPc # "none"
            => delivered \o readCh \o InFlight = Decoded(script, readCount))
    /\ [][(readCount' = readCount + 1
            /\ UnmarshalMessage(WireFrame(script, readCount'))["err"] # "nil")
           => readerPc' = "check"]_vars

\* The mailbox is full, the reader waits with the next message, undecodable frames
\* were skipped on the way and the consumer has received something.
C5_Witness ==
    /\ Len(readCh) = MailboxCap /\ readerPc = "push" /\ ~cancelled
    /\ Len(delivered) > 0
    /\ readCount > Len(Decoded(script, readCount))

NoSession == hsPc = "done" /\ hsResult # "ok"

\* C6 (as claimed): a Session is returned only if the first message on the mailbox
\* is an Ack; any other first message, or a deadline that expired before any
\* message arrived, gives an error and no Session.
C6_Original ==
    hsPc = "done" /\ hsResult # "dialErr" =>
        /\ hsResult = "ok" =>
              /\ hsGot.variant = "Ack"
              /\ hsGot = Head(Decoded(script, MaxFrames))
        /\ (hsGot # NilMsg /\ hsGot.variant # "Ack") => NoSession
        /\ ctxDoneBeforeMsg => NoSession

\* C6 (amended): a Session is returned exactly when NewSession received a message
\* and it is an Ack; the message it receives is the first one the reader queued;
\* and when it received none it failed on the Start send or on the deadline it
\* observed.
C6_HandshakeAck ==
    hsPc = "done" /\ hsResult # "dialErr" =>
        /\ hsResult = "ok" <=> (hsGot # NilMsg /\ hsGot.variant = "Ack")
        /\ hsGot # NilMsg => hsGot = Head(Decoded(script, MaxFrames))
        /\ (hsGot # NilMsg /\ hsGot.variant # "Ack") => hsResult = "notAck"
        /\ hsGot = NilMsg => hsResult \in {"sendErr", "timeout"}
        /\ hsResult = "timeout" => ctxDone
        /\ hsResult = "ok" => (sent # <<>> /\ Head(sent) = "start")

\* The handshake succeeded on an Ack that followed a skipped malformed frame.
C6_Witness ==
    hsPc = "done" /\ hsResult = "ok" /\ readCount >= 2 /\ KindAt(script, 1) = "garbage"

\* C7 (as claimed): every handshake failure after the Session was built leaves
\* the Session closed: token fired, both loops exited, socket closed.
C7_FailureClosesSession ==
    (hsPc = "done" /\ hsResult \in {"sendErr", "notAck", "timeout"})
        => (cancelled /\ LoopsExited /\ connClosed)

\* C8 (as claimed): for every variant and every field value, decoding the
\* encoding of m succeeds and yields m.
C8_RoundTrip ==
    cpc = "done" => (cres.err = "nil" /\ cres.msg = cmsg)

\* C9: close(sendQuestion) is executed at most once, and the step that executes it
\* starts with the agent marked speaking, the greeting not complete and more
\* than 2 seconds since the last audio; it marks the greeting complete, and the
\* mark is never taken back, so no later step can execute it again.
C9_GreetingOnce ==
    /\ [](sendQuestionCloses <= 1)
    /\ [](sendQuestionCloses = 1 <=> greetingComplete)
    /\ [][sendQuestionCloses' # sendQuestionCloses
            => /\ agentSpeaking /\ ~greetingComplete
               /\ sinceAudio > SilenceThreshold
               /\ sendQuestionCloses' = sendQuestionCloses + 1]_vars
    /\ [][greetingComplete => greetingComplete']_vars

\* The greeting signal was fired, and later the agent spoke again and fell silent
\* for more than 2 seconds while the controller was still running.
C9_Witness ==
    /\ sendQuestionCloses = 1 /\ ctlPc = "run" /\ timerReady
    /\ agentSpeaking /\ sinceAudio > SilenceThreshold

C11_TimeoutDistinct == ctlWhy = "timeout" => ctlErr # "nil"

\* The outcomes the specification lists for the controller loop.
FourOutcomes == {"complete", "timeout", "chanClosed", "deadline"}

\* The error value each return statement of listenForResponses yields.
ErrOf(why) ==
    CASE why = "complete" -> "nil"
      [] why = "timeout" -> "nil"
      [] why = "chanClosed" -> "message channel closed"
      [] why = "writeErr" -> "write audio error"
      [] why = "deadline" -> "ctx.Err()"
      [] OTHER -> "?"

\* C12 as stated: whenever the controller loop has exited, it has exited by one
\* of four outcomes: clean completion, timeout, mailbox closed, deadline.
C12_Original == ctlPc = "done" => ctlWhy \in FourOutcomes

\* C12, amended: whenever the controller loop has exited, it has exited by
\* exactly one of five return statements, the four above or the failure of a
\* recorder write, with that statement's error value; while it runs it has no
\* outcome, and exactly one value is handed to runConversation.
C12_FiveOutcomes ==
    /\ ctlPc = "done" => /\ ctlWhy \in FourOutcomes \cup {"writeErr"}
                         /\ ctlErr = ErrOf(ctlWhy)
    /\ ctlPc = "run" => ctlWhy = "" /\ responseDone = <<>>
    /\ ctlPc = "done" /\ mainPc \in {"waitGreeting", "sendAudio", "writeLeft", "sending",
                                       "audioSent"}
         => responseDone = <<ctlErr>>

\* The controller has left through the recorder's failure.
C12_Witness ==
    ctlPc = "done" /\ ctlWhy = "writeErr" /\ responseDone = <<"write audio error">>

\* C13: a read failure of the socket surfaces.  When the controller returns
\* after the reader loop died of a read error while the controller was running,
\* it returns an error (which runConversation hands to its caller).
C13_ReadErrorSurfaces ==
    [][(readerWhy = "readErr" /\ ctlPc = "run" /\ ctlPc' = "done")
         => ctlErr' # "nil"]_vars

\* The data chunks sent, in the order sent.
DataChunks == SelectSeq(chunks, LAMBDA c : c.kind = "data")

\* The data chunks are consecutive ranges that start at 0 and end at n: their
\* concatenation is the first n bytes of the buffer, in order.
Covers(cs, n) ==
    /\ cs = <<>> => n = 0
    /\ cs # <<>> => cs[1].lo = 0 /\ cs[Len(cs)].hi = n
    /\ \A i \in 1..(Len(cs) - 1) : cs[i].hi = cs[i + 1].lo

\* The data loop has run to its end.
DataLoopOver ==
    chPc = "silence" \/ (chPc = "done" /\ chErr \in {"nil", "send silence error"})

\* C14 as stated: 100,000 bytes are cut into 12 data chunks, 11 of 8820 bytes
\* and a last one of 1,880 bytes.
C14_Original ==
    (DataLoopOver /\ audioLen = 100000)
        => /\ Len(DataChunks) = 12
           /\ \A i \in 1..11 : DataChunks[i].hi - DataChunks[i].lo = CHUNK_SIZE
           /\ DataChunks[12].hi - DataChunks[12].lo = 1880

\* C14, amended: 100,000 bytes are cut into 12 data chunks, 11 of 8820 bytes
\* and a last one of 2,980 bytes, sent in the order of the buffer and covering
\* it; for every length the chunks sent so far cover the buffer up to offset,
\* each is full but possibly the last, and none is empty.
C14_Chunking ==
    /\ (DataLoopOver /\ audioLen = 100000)
          => /\ Len(DataChunks) = 12
             /\ \A i \in 1..11 : DataChunks[i].hi - DataChunks[i].lo = CHUNK_SIZE
             /\ DataChunks[12].hi - DataChunks[12].lo = 2980
    /\ DataLoopOver => Covers(DataChunks, audioLen)
    /\ chPc = "data"
          => Covers(DataChunks, IF offset < audioLen THEN offset ELSE audioLen)
    /\ \A i \in 1..Len(DataChunks) :
          /\ DataChunks[i].hi > DataChunks[i].lo
          /\ DataChunks[i].hi - DataChunks[i].lo <= CHUNK_SIZE
          /\ i < Len(DataChunks) => DataChunks[i].hi - DataChunks[i].lo = CHUNK_SIZE

\* sendAudioFile has returned nil on the 100,000-byte buffer.
C14_Witness ==
    chPc = "done" /\ chErr = "nil" /\ audioLen = 100000 /\ Len(chunks) = 22

\* C15: a Clear message ends nothing and changes no turn state.  The step in
\* which the controller takes a Clear from the mailbox leaves it running, with
\* greetingComplete, questionSent, agentSpeaking and the time since the last
\* audio as they were, the one-shot signal unfired and nothing returned.
C15_ClearIsInert ==
    [][(ctlPc = "run" /\ readCh # <<>> /\ Head(readCh).variant = "Clear"
        /\ readCh' = Tail(readCh))
         => /\ ctlPc' = "run"
            /\ UNCHANGED <<greetingComplete, questionSent, agentSpeaking, sinceAudio,
                           sendQuestionCloses, ctlWhy, ctlErr, responseDone>>]_vars

\* A Clear has been processed while the agent was marked speaking, some time
\* after its last audio, and the controller listens on.
C15_Witness ==
    clearLogged /\ ctlPc = "run" /\ agentSpeaking /\ sinceAudio > 0 /\ readCh = <<>>

\* C16: a read error stops the whole session, a ping failure stops nothing.
\* Once the reader loop has returned on a transport read error the cancellation
\* token is fired, and the keep-alive loop then returns too, whether or not
\* Close is ever called; a conn.Ping that returns an error leaves the token, the
\* wait group and the reader loop as they were and the keep-alive loop waiting
\* for its next tick.
C16_ReadErrorStopsLoops ==
    /\ [](readerWhy = "readErr" => cancelled)
    /\ (readerWhy = "readErr") ~> (pingPc = "done")
    /\ [][(pingPc \in {"ping", "failed"} /\ pingPc' # pingPc)
            => /\ pingPc' \in {"wait", "failed"}
               /\ UNCHANGED <<cancelled, wg, readerPc, readerWhy>>]_vars

\* Both loops are gone after a read error, and Close was never called.
C16_Witness ==
    /\ readerWhy = "readErr" /\ pingPc = "done" /\ cancelled
    /\ closePc = "idle" /\ wg = 0

\* The greeting rule, the response rule, the timeout rule would fire at a tick.
GreetingDue ==
    ctlPc = "run" /\ GreetingSilence
ResponseDue ==
    ctlPc = "run" /\ ResponseSilence(greetingComplete, agentSpeaking)
TimeoutDue ==
    ctlPc = "run" /\ ResponseTimedOut(greetingComplete, agentSpeaking)

\* C17: silence is detected whatever the timing of the messages.  Once a rule
\* of the timer case is due (more than 2s, or 10s, since the last audio) it
\* does not stay due for ever: the transition happens, unless new audio or the
\* end of the controller comes first -- also when Clear and empty MediaOutput
\* messages keep arriving less than a timer period apart.
C17_SilenceDetected ==
    (GreetingDue \/ ResponseDue \/ TimeoutDue)
        ~> ~(GreetingDue \/ ResponseDue \/ TimeoutDue)

\* C18: the question comes after the greeting.  While runConversation is about
\* to call sendAudioFile, is in it or past it, the controller has made the
\* greeting-complete transition; questionComplete is closed, and the controller
\* has questionSent set, only with greetingComplete set.
C18_QuestionAfterGreeting ==
    /\ mainPc \in {"sendAudio", "writeLeft", "sending", "audioSent", "waitDone"}
         => greetingComplete
    /\ questionCompleteClosed => greetingComplete
    /\ questionSent => greetingComplete /\ questionCompleteClosed

\* The question has been streamed and the controller has marked it sent.
C18_Witness ==
    mainPc = "waitDone" /\ ctlPc = "run" /\ questionSent /\ greetingComplete

\* C19: audio from before the question cannot complete the response.  The
\* question-sent signal clears the speaking flag and restarts the clock, so
\* that a response-complete outcome rests on a message that reached the
\* session after the question was fully sent -- not on what was already there,
\* the messages still queued in the mailbox when the signal fires included.
C19_NoStaleCompletion == ctlWhy = "complete" => arrivedAfter

\* C20: the recorder is not shared.  The controller task calls
\* recorder.WriteRight (on taking a MediaOutput with audio from the mailbox)
\* only while the task of runConversation is not inside recorder.WriteLeft.
C20_RecorderConfined ==
    [][(ctlPc = "run" /\ readCh # <<>> /\ CarriesAudio(Head(readCh))
        /\ readCh' = Tail(readCh))
         => mainPc # "writeLeft"]_vars

\* The deadline of the overarching context has expired (the context is done
\* before runConversation's deferred cancel() has run).
DeadlineExpired == ctxDone /\ mainPc # "exited"

\* C21: the external deadline wins.  Once the deadline has expired while the
\* controller is running, the controller leaves only by the deadline-exceeded
\* outcome, whatever message or timer tick is ready as well.
C21_DeadlineWins ==
    [][(DeadlineExpired /\ ctlPc = "run" /\ ctlPc' = "done")
         => (ctlWhy' = "deadline" /\ ctlErr' = "ctx.Err()")]_vars

\* C22: the recorder is not written once it is closed.  On every return path
\* of runConversation, the controller task calls recorder.WriteRight (on taking
\* a MediaOutput with audio from the mailbox) only before the deferred
\* recorder.Close() has run.
C22_NoWriteAfterClose ==
    [][(ctlPc = "run" /\ readCh # <<>> /\ CarriesAudio(Head(readCh))
        /\ readCh' = Tail(readCh))
         => ~RecorderClosed]_vars
====
